---- MODULE Spec2Model ----
(***************************************************************************)
(* SIPMessage.from_bytes / SIPMessage.from_string of                       *)
(* pyVoIP/SIP/message/message.py.                                           *)
(*                                                                         *)
(* Raw input is a sequence of chunks.  A chunk is an indivisible run of    *)
(* bytes: a word without blanks, one blank " ", one line end "\r\n", a     *)
(* header line, a payload part, or a byte (code point) that cannot be      *)
(* decoded (encoded).  Splitting, decoding and joining work on chunks the  *)
(* way the Python code works on bytes.                                     *)
(***************************************************************************)
EXTENDS Integers, Sequences, FiniteSets, TLC

VARIABLES entry, data, pc, result

vars == <<entry, data, pc, result>>

(* ----------------------------- bounds --------------------------------- *)

MaxTokens == 3
MaxHeaders == 2
MaxParts == 2

(* ----------------------------- chunks --------------------------------- *)

SP == " "
CRLF == "\r\n"
\* a byte that is no valid UTF-8 (bytes input only)
BadByte == "<0xff>"
\* a lone surrogate code point, which UTF-8 cannot encode (str input only)
Surrogate == "<U+D800>"

\* header lines, each "Name: value"
HeaderLines == {"Via: v1", "WWW-Authenticate: w", "Authorization: a",
                "Proxy-Authenticate: p"}
\* a line the header tokenizer cannot tokenize
BadHeaderLine == "<no-colon>"

\* payload parts of the message body
GoodParts == {"sdp#1", "sdp#2", "text#1"}
BadPart == "<bad-part>"

(* --------------------- exceptions and outcomes ------------------------ *)

NoCause == [class |-> "None"]

\* an exception other than SIPParseError, as the interpreter or a
\* collaborator raises it
Exc(cls, msg) == [class |-> cls, msg |-> msg]

\* SIPParseError(msg), raised directly: it has no cause
SIPParseError(msg) == [class |-> "SIPParseError", msg |-> msg, cause |-> NoCause]

\* raise SIPParseError(e) from e
SIPParseErrorFrom(e) == [class |-> "SIPParseError", msg |-> e.msg, cause |-> e]

Return(v) == [raised |-> FALSE, val |-> v]
Raise(e) == [raised |-> TRUE, val |-> e]

(* ------------------------- bytes operations --------------------------- *)

\* index of the first b"\r\n\r\n" in s at or after i, 0 when there is none
RECURSIVE FindSeparator(_, _)
FindSeparator(s, i) ==
  IF i + 1 > Len(s) THEN 0
  ELSE IF s[i] = CRLF /\ s[i + 1] = CRLF THEN i
  ELSE FindSeparator(s, i + 1)

\* data.split(b"\r\n\r\n", maxsplit=1): one or two pieces
SplitSeparator(s) ==
  LET i == FindSeparator(s, 1) IN
  IF i = 0 THEN <<s>>
  ELSE <<SubSeq(s, 1, i - 1), SubSeq(s, i + 2, Len(s))>>

\* s.split(sep) for a one-chunk separator: the pieces between the
\* separators, empty pieces included, at least one piece
RECURSIVE SplitOn(_, _, _, _)
SplitOn(s, sep, i, cur) ==
  IF i > Len(s) THEN <<cur>>
  ELSE IF s[i] = sep THEN <<cur>> \o SplitOn(s, sep, i + 1, <<>>)
  ELSE SplitOn(s, sep, i + 1, Append(cur, s[i]))

Split(s, sep) == SplitOn(s, sep, 1, <<>>)

\* the text of a run of chunks
RECURSIVE Text(_)
Text(s) == IF s = <<>> THEN "" ELSE Head(s) \o Text(Tail(s))

\* str(line, "utf8"): fails on a byte that is no UTF-8
Decodable(line) == \A i \in 1..Len(line) : line[i] /= BadByte

\* data.encode("utf8"): fails on a lone surrogate
Encodable(s) == \A i \in 1..Len(s) : s[i] /= Surrogate

(* ------------------- configuration and vocabularies ------------------- *)

\* pyVoIP.SIPCompatibleVersions
SIPCompatibleVersions == {"SIP/2.0"}

\* the values of the SIPMethod enumeration
SIPMethod == {"INVITE", "ACK", "BYE", "CANCEL", "OPTIONS", "NOTIFY", "REGISTER",
              "MESSAGE", "SUBSCRIBE", "REFER"}

\* regex.SIP_VERSION_MATCH.match(tok): tok starts like <NAME>/<MAJOR>.<MINOR>
VersionMatch(tok) == tok \in {"SIP/2.0", "SIP/3.0", "sip/2.0"}

\* tok.upper()
Upper(tok) ==
  CASE tok = "sip/2.0" -> "SIP/2.0"
    [] tok = "sip:bob" -> "SIP:BOB"
    [] OTHER -> tok

\* int(tok) succeeds on decimal digits only
IsInt(tok) == tok \in {"200", "999"}

IntOf(tok) ==
  CASE tok = "200" -> 200
    [] tok = "999" -> 999
    [] OTHER -> 0

\* the values ResponseCode(n) resolves
ResponseCodes == {100, 180, 200, 401, 404, 486}

\* ResponseCode(n): an enumeration lookup, which raises ValueError on a
\* value that is no member
ResponseCode(n) ==
  IF n \in ResponseCodes THEN Return(n)
  ELSE Raise(Exc("ValueError", "not a valid ResponseCode"))

\* get_uri_header(tok): the destination descriptor of a URI token
IsUri(tok) == tok = "sip:bob"

get_uri_header(tok) ==
  IF IsUri(tok) THEN Return([uri |-> tok, user |-> "bob"])
  ELSE Raise(Exc("AttributeError", "no URI in " \o tok))

(* -------------------------- header tokenizer -------------------------- *)

HeaderName(line) ==
  CASE line = "Via: v1" -> "Via"
    [] line = "WWW-Authenticate: w" -> "WWW-Authenticate"
    [] line = "Authorization: a" -> "Authorization"
    [] line = "Proxy-Authenticate: p" -> "Proxy-Authenticate"
    [] OTHER -> ""

HeaderValue(line) ==
  CASE line = "Via: v1" -> "v1"
    [] line = "WWW-Authenticate: w" -> [realm |-> "w"]
    [] line = "Authorization: a" -> [realm |-> "a"]
    [] line = "Proxy-Authenticate: p" -> [realm |-> "p"]
    [] OTHER -> ""

\* the mapping built from the lines: Via collects every value, any other
\* name keeps its first value
RECURSIVE TokenizeFrom(_, _)
TokenizeFrom(lines, h) ==
  IF lines = <<>> THEN h
  ELSE LET n == HeaderName(Text(Head(lines)))
           v == HeaderValue(Text(Head(lines)))
       IN TokenizeFrom(Tail(lines),
            IF n = "Via" THEN [h EXCEPT !["Via"] = Append(@, v)]
            ELSE IF n \in DOMAIN h THEN h
            ELSE h @@ (n :> v))

\* parse_raw_headers(headers_raw)
parse_raw_headers(lines) ==
  IF \E i \in 1..Len(lines) : Text(lines[i]) \notin HeaderLines
  THEN Raise(Exc("IndexError", "header line"))
  ELSE Return(TokenizeFrom(lines, "Via" :> <<>>))

(* ----------------------- payload-part extractor ----------------------- *)

PartType(c) == IF c \in {"sdp#1", "sdp#2"} THEN "application/sdp" ELSE "text/plain"

PartPayload(c) == [content |-> c]

\* parse_message_for_body_parts(data): the (content-type, payload) pairs of
\* the parts after the blank line, none when there is no blank line
parse_message_for_body_parts(d) ==
  LET p == SplitSeparator(d)
      b == IF Len(p) = 2 THEN p[2] ELSE <<>>
  IN IF \E i \in 1..Len(b) : b[i] \notin GoodParts
     THEN Raise(Exc("ValueError", "payload part"))
     ELSE Return([i \in 1..Len(b) |-> <<PartType(b[i]), PartPayload(b[i])>>])

(* ------------------------- SIPMessage.__init__ ------------------------ *)

\* the value of body when no part is an SDP: {'content': None}
NoBody == [content |-> "None"]

\* SdpTuple taking the last SDP part instead of the first
SdpTupleLast(body_parts) ==
  LET hits == {i \in 1..Len(body_parts) : body_parts[i][1] = "application/sdp"}
  IN IF hits = {} THEN 0 ELSE CHOOSE i \in hits : \A j \in hits : i >= j

\* next((t for t in body_parts if t[0] == "application/sdp"), None):
\* the index of the first SDP part, 0 for None
SdpTuple(body_parts) ==
  LET hits == {i \in 1..Len(body_parts) : body_parts[i][1] = "application/sdp"}
  IN IF hits = {} THEN 0 ELSE CHOOSE i \in hits : \A j \in hits : i <= j

\* the fields SIPMessage.__init__ sets
SIPMessageInit(start_line, headers, body_parts, authentication, raw) ==
  [start_line |-> start_line,
   headers |-> headers,
   authentication |-> authentication,
   raw |-> raw,
   body_parts |-> body_parts,
   body |-> IF SdpTuple(body_parts) /= 0
            THEN body_parts[SdpTuple(body_parts)][2]
            ELSE NoBody]

\* SIPRequest(start_line, headers, body, authentication, raw, method, destination)
SIPRequest(start_line, headers, body_parts, authentication, raw, method, destination) ==
  SIPMessageInit(start_line, headers, body_parts, authentication, raw)
    @@ [class |-> "SIPRequest", method |-> method, destination |-> destination]

\* SIPResponse(start_line, headers, body, authentication, raw, status)
SIPResponse(start_line, headers, body_parts, authentication, raw, status) ==
  SIPMessageInit(start_line, headers, body_parts, authentication, raw)
    @@ [class |-> "SIPResponse", status |-> status]

(* ------------------------ SIPMessage.from_bytes ----------------------- *)

\* UnpackHeadersBody without the handler of ValueError
UnpackNoFallback(d) ==
  LET p == SplitSeparator(d)
  IN IF Len(p) = 2 THEN Return(p)
     ELSE Raise(Exc("ValueError", "not enough values to unpack"))

\* headers, body = data.split(b"\r\n\r\n", maxsplit=1), and on ValueError
\* (one piece only) headers = data, body = b""
UnpackHeadersBody(d) ==
  LET p == SplitSeparator(d)
  IN IF Len(p) = 2 THEN Return(p) ELSE Return(<<d, <<>>>>)

\* headers_raw = headers.split(b"\r\n")
HeadersRaw(headers) == Split(headers, CRLF)

\* start_line = str(headers_raw.pop(0), "utf8").split(" ")
StartLine(first) ==
  IF ~Decodable(first) THEN Raise(Exc("UnicodeDecodeError", "invalid start byte"))
  ELSE LET toks == Split(first, SP)
       IN Return([i \in 1..Len(toks) |-> Text(toks[i])])

\* ClassifyResponse taking a missing status token as 200
ClassifyResponseDefaultStatus(start_line) ==
  LET check == start_line[1] IN
  IF Upper(check) \notin SIPCompatibleVersions
  THEN Raise(SIPParseError("SIP Version " \o check \o " not compatible."))
  ELSE IF Len(start_line) < 2
  THEN Return([response |-> TRUE, status |-> 200])
  ELSE IF ~IsInt(start_line[2])
  THEN Raise(Exc("ValueError", "invalid literal for int()"))
  ELSE LET status == ResponseCode(IntOf(start_line[2]))
       IN IF status.raised THEN status
          ELSE Return([response |-> TRUE, status |-> status.val])

\* the response branch: version check, then ResponseCode(int(start_line[1]))
ClassifyResponse(start_line) ==
  LET check == start_line[1] IN
  IF Upper(check) \notin SIPCompatibleVersions
  THEN Raise(SIPParseError("SIP Version " \o check \o " not compatible."))
  ELSE IF Len(start_line) < 2
  THEN Raise(Exc("IndexError", "list index out of range"))
  ELSE IF ~IsInt(start_line[2])
  THEN Raise(Exc("ValueError", "invalid literal for int()"))
  ELSE LET status == ResponseCode(IntOf(start_line[2]))
       IN IF status.raised THEN status
          ELSE Return([response |-> TRUE, status |-> status.val])

\* ClassifyRequest checking the method before the version
ClassifyRequestMethodFirst(start_line) ==
  IF Len(start_line) < 3
  THEN Raise(Exc("IndexError", "list index out of range"))
  ELSE IF start_line[1] \notin SIPMethod
  THEN Raise(SIPParseError("SIP Method " \o start_line[1] \o " not supported."))
  ELSE IF Upper(start_line[3]) \notin SIPCompatibleVersions
  THEN Raise(SIPParseError("SIP Version " \o start_line[3] \o " not compatible."))
  ELSE LET destination == get_uri_header(start_line[2])
       IN IF destination.raised THEN destination
          ELSE Return([response |-> FALSE, method |-> start_line[1],
                       destination |-> destination.val])

\* ClassifyRequest without the membership test before SIPMethod(start_line[0]),
\* whose lookup then raises ValueError
ClassifyRequestNoMethodCheck(start_line) ==
  IF Len(start_line) < 3
  THEN Raise(Exc("IndexError", "list index out of range"))
  ELSE IF Upper(start_line[3]) \notin SIPCompatibleVersions
  THEN Raise(SIPParseError("SIP Version " \o start_line[3] \o " not compatible."))
  ELSE IF start_line[1] \notin SIPMethod
  THEN Raise(Exc("ValueError", "not a valid SIPMethod"))
  ELSE LET destination == get_uri_header(start_line[2])
       IN IF destination.raised THEN destination
          ELSE Return([response |-> FALSE, method |-> start_line[1],
                       destination |-> destination.val])

\* the request branch: version check on start_line[2], method check,
\* SIPMethod(start_line[0]), get_uri_header(start_line[1])
ClassifyRequest(start_line) ==
  IF Len(start_line) < 3
  THEN Raise(Exc("IndexError", "list index out of range"))
  ELSE IF Upper(start_line[3]) \notin SIPCompatibleVersions
  THEN Raise(SIPParseError("SIP Version " \o start_line[3] \o " not compatible."))
  ELSE IF start_line[1] \notin SIPMethod
  THEN Raise(SIPParseError("SIP Method " \o start_line[1] \o " not supported."))
  ELSE LET destination == get_uri_header(start_line[2])
       IN IF destination.raised THEN destination
          ELSE Return([response |-> FALSE, method |-> start_line[1],
                       destination |-> destination.val])

\* if version_match.match(check): ... else: ...
Classify(start_line) ==
  IF VersionMatch(start_line[1]) THEN ClassifyResponse(start_line)
  ELSE ClassifyRequest(start_line)

\* the empty mapping {}
EmptyDict == <<>>

\* ResolveAuthentication looking at Proxy-Authenticate before Authorization
ResolveAuthenticationProxyFirst(parsed_headers) ==
  IF "WWW-Authenticate" \in DOMAIN parsed_headers
  THEN parsed_headers["WWW-Authenticate"]
  ELSE IF "Proxy-Authenticate" \in DOMAIN parsed_headers
  THEN parsed_headers["Proxy-Authenticate"]
  ELSE IF "Authorization" \in DOMAIN parsed_headers
  THEN parsed_headers["Authorization"]
  ELSE <<>>

\* the authentication of a header mapping
ResolveAuthentication(parsed_headers) ==
  IF "WWW-Authenticate" \in DOMAIN parsed_headers
  THEN parsed_headers["WWW-Authenticate"]
  ELSE IF "Authorization" \in DOMAIN parsed_headers
  THEN parsed_headers["Authorization"]
  ELSE IF "Proxy-Authenticate" \in DOMAIN parsed_headers
  THEN parsed_headers["Proxy-Authenticate"]
  ELSE EmptyDict

\* Construct with the test of response inverted
ConstructSwapped(kind, start_line, parsed_headers, body_parts, authentication, d) ==
  IF ~kind.response
  THEN SIPResponse(start_line, parsed_headers, body_parts, authentication, d,
                   kind.method)
  ELSE SIPRequest(start_line, parsed_headers, body_parts, authentication, d,
                  kind.status, kind.status)

\* if response: return SIPResponse(...)   return SIPRequest(...)
Construct(kind, start_line, parsed_headers, body_parts, authentication, d) ==
  IF kind.response
  THEN SIPResponse(start_line, parsed_headers, body_parts, authentication, d,
                   kind.status)
  ELSE SIPRequest(start_line, parsed_headers, body_parts, authentication, d,
                  kind.method, kind.destination)

\* the body of the outer try of from_bytes
FromBytesBody(d) ==
  LET unpacked == UnpackHeadersBody(d) IN
  IF unpacked.raised THEN unpacked ELSE
  LET headers_raw == HeadersRaw(unpacked.val[1])
      start_line == StartLine(Head(headers_raw))
  IN
  IF start_line.raised THEN start_line ELSE
  LET kind == Classify(start_line.val) IN
  IF kind.raised THEN kind ELSE
  LET parsed_headers == parse_raw_headers(Tail(headers_raw)) IN
  IF parsed_headers.raised THEN parsed_headers ELSE
  LET authentication == ResolveAuthentication(parsed_headers.val)
      body_parts == parse_message_for_body_parts(d)
  IN
  IF body_parts.raised THEN body_parts ELSE
  Return(Construct(kind.val, start_line.val, parsed_headers.val, body_parts.val,
                   authentication, d))

\* the handler re-raising whatever it caught
NormalizeReraise(outcome) == outcome

\* except Exception as e: if type(e) is not SIPParseError:
\*     raise SIPParseError(e) from e
\* raise
Normalize(outcome) ==
  IF ~outcome.raised THEN outcome
  ELSE IF outcome.val.class /= "SIPParseError"
  THEN Raise(SIPParseErrorFrom(outcome.val))
  ELSE outcome

from_bytes(d) == Normalize(FromBytesBody(d))

(* ----------------------- SIPMessage.from_string ----------------------- *)

\* data.encode("utf8")
Encode(s) ==
  IF Encodable(s) THEN Return(s)
  ELSE Raise(Exc("UnicodeEncodeError", "surrogates not allowed"))

\* the body of the try of from_string
FromStringBody(s) ==
  LET encoded == Encode(s) IN
  IF encoded.raised THEN encoded ELSE from_bytes(encoded.val)

\* the handler of from_string, the same as that of from_bytes
NormalizeString(outcome) ==
  IF ~outcome.raised THEN outcome
  ELSE IF outcome.val.class /= "SIPParseError"
  THEN Raise(SIPParseErrorFrom(outcome.val))
  ELSE outcome

from_string(s) == NormalizeString(FromStringBody(s))

(* ------------------------------ inputs -------------------------------- *)

SeqsUpTo(S, n) == UNION {[1..k -> S] : k \in 0..n}

\* the words of a start-line; "" is the empty token between two blanks
StartWords == {"INVITE", "FOO", "SIP/2.0", "SIP/3.0", "sip/2.0", "200", "999",
               "sip:bob", ""}

\* " ".join(tokens), as chunks
RECURSIVE JoinTokens(_)
JoinTokens(toks) ==
  IF toks = <<>> THEN <<>>
  ELSE (IF Head(toks) = "" THEN <<>> ELSE <<Head(toks)>>)
       \o (IF Len(toks) > 1 THEN <<SP>> ELSE <<>>)
       \o JoinTokens(Tail(toks))

\* "\r\n" before every header line
RECURSIVE JoinLines(_)
JoinLines(lines) ==
  IF lines = <<>> THEN <<>> ELSE <<CRLF, Head(lines)>> \o JoinLines(Tail(lines))

\* what follows the last header line: nothing, one line end, or the blank
\* line and the payload parts
Tails ==
  {<<>>, <<CRLF>>}
    \cup {<<CRLF, CRLF>> \o b : b \in SeqsUpTo(GoodParts \cup {BadPart}, MaxParts)}

Message(toks, lines, tail) == JoinTokens(toks) \o JoinLines(lines) \o tail

\* start-lines that pass, and one that fails, for the inputs that vary the
\* headers and the payload
CoreStartLines == {<<"INVITE", "sip:bob", "SIP/2.0">>, <<"SIP/2.0", "200", "FOO">>,
                   <<"INVITE", "sip:bob", "sip/2.0">>, <<"SIP/2.0", "999">>}

\* every start-line, alone or with one header line and the blank line
WideStartLines(extra) ==
  {Message(t, r[1], r[2]) : t \in SeqsUpTo(StartWords \cup extra, MaxTokens),
                            r \in {<<<<>>, <<>>>>, <<<<"Via: v1">>, <<CRLF, CRLF>>>>}}

\* few start-lines, with every header block and payload
WideRest ==
  {Message(t, h, tail) : t \in CoreStartLines,
                         h \in SeqsUpTo(HeaderLines \cup {BadHeaderLine}, MaxHeaders),
                         tail \in Tails}

BytesInputs == WideStartLines({BadByte}) \cup WideRest

StrInputs == WideStartLines({Surrogate}) \cup WideRest

(* --------------------------- state machine ---------------------------- *)

Pending == Return(NoCause)

Init ==
  /\ entry \in {"from_bytes", "from_string"}
  /\ data \in (IF entry = "from_bytes" THEN BytesInputs ELSE StrInputs)
  /\ pc = "ready"
  /\ result = Pending

\* a caller calls SIPMessage.from_bytes(data)
FromBytes ==
  /\ pc = "ready"
  /\ entry = "from_bytes"
  /\ result' = from_bytes(data)
  /\ pc' = "done"
  /\ UNCHANGED <<entry, data>>

\* a caller calls SIPMessage.from_string(data)
FromString ==
  /\ pc = "ready"
  /\ entry = "from_string"
  /\ result' = from_string(data)
  /\ pc' = "done"
  /\ UNCHANGED <<entry, data>>

Next == FromBytes \/ FromString

Spec == Init /\ [][Next]_vars

(* ------------------------ vocabulary of the claims -------------------- *)

Done == pc = "done"

\* the call reaches the try of from_bytes with data as its bytes
Arrives == entry = "from_bytes" \/ Encodable(data)

\* the first line of the input, up to the first line end
FirstLine == Head(Split(data, CRLF))

\* the input has a start-line that decodes
HasStartLine == Arrives /\ Decodable(FirstLine)

\* the tokens of the start-line of the input
Tokens == StartLine(FirstLine).val

ResponseShaped == HasStartLine /\ VersionMatch(Tokens[1])

RequestShaped == HasStartLine /\ ~VersionMatch(Tokens[1])

\* a SIPParseError raised by the parser itself, not a wrapped failure
Direct(e) == e.class = "SIPParseError" /\ e.cause = NoCause

\* a SIPParseError that wraps a failure of class cls
Wrapped(e, cls) == e.class = "SIPParseError" /\ e.cause /= NoCause /\ e.cause.class = cls

UnsupportedVersion(e, tok) ==
  Direct(e) /\ e.msg = "SIP Version " \o tok \o " not compatible."

UnsupportedMethod(e, tok) ==
  Direct(e) /\ e.msg = "SIP Method " \o tok \o " not supported."

Succeeded == Done /\ ~result.raised

Failed == Done /\ result.raised

(* ------------------------------- C1 ----------------------------------- *)

\* what the try of the entry point called raised or returned
Inner == IF entry = "from_bytes" THEN FromBytesBody(data) ELSE FromStringBody(data)

\* C1: every failure of from_bytes or from_string reaches the caller as a
\* SIPParseError: a SIPParseError raised inside is re-raised unchanged, any
\* other exception is wrapped in a SIPParseError whose cause is that
\* exception, and a failure inside never ends as a return.
C1_FailuresAreSIPParseError ==
  Done =>
    /\ Inner.raised <=> result.raised
    /\ result.raised =>
         /\ result.val.class = "SIPParseError"
         /\ IF Inner.val.class = "SIPParseError"
            THEN result.val = Inner.val
            ELSE result.val.cause = Inner.val

C1_Witness ==
  /\ Failed
  /\ entry = "from_string"
  /\ Wrapped(result.val, "UnicodeEncodeError")

(* ------------------------------- C2 ----------------------------------- *)

CommonFields == {"start_line", "headers", "authentication", "raw", "body_parts",
                 "body", "class"}

\* C2: a successful parse returns exactly one variant: a SIPResponse, with
\* a status and neither method nor destination, iff the first start-line
\* token matches the version grammar, and otherwise a SIPRequest with a
\* method and a destination and no status.
C2_ExactlyOneVariant ==
  Succeeded =>
    /\ HasStartLine
    /\ result.val.start_line = Tokens
    /\ result.val.class \in {"SIPRequest", "SIPResponse"}
    /\ (result.val.class = "SIPResponse") <=> VersionMatch(Tokens[1])
    /\ result.val.class = "SIPResponse" =>
         /\ DOMAIN result.val = CommonFields \cup {"status"}
         /\ result.val.status \in ResponseCodes
    /\ result.val.class = "SIPRequest" =>
         /\ DOMAIN result.val = CommonFields \cup {"method", "destination"}
         /\ result.val.method \in SIPMethod

C2_Witness ==
  /\ Succeeded
  /\ result.val.class = "SIPResponse"
  /\ result.val.status = 200
  /\ Len(Tokens) = 3

(* ------------------------------- C3 ----------------------------------- *)

\* C3 as stated: the version token is the second token of a response-form
\* start-line and the third of a request-form one; it must be in
\* SIPCompatibleVersions, and a version that is not makes the parse fail
\* with the version error.
C3_VersionSecondForResponse ==
  Done /\ HasStartLine =>
    LET pos == IF VersionMatch(Tokens[1]) THEN 2 ELSE 3 IN
    /\ Len(Tokens) >= pos /\ Tokens[pos] \notin SIPCompatibleVersions =>
         result.raised /\ UnsupportedVersion(result.val, Tokens[pos])
    /\ ~result.raised =>
         Len(Tokens) >= pos /\ Tokens[pos] \in SIPCompatibleVersions

\* C3 amended: the version token is the first token of a response-form
\* start-line and the third of a request-form one; upper-cased, it must be in
\* SIPCompatibleVersions, and a version that is not makes the parse fail
\* with the version error, no message returned.
C3_VersionFirstForResponse ==
  Done /\ HasStartLine =>
    LET pos == IF VersionMatch(Tokens[1]) THEN 1 ELSE 3 IN
    /\ Len(Tokens) >= pos /\ Upper(Tokens[pos]) \notin SIPCompatibleVersions =>
         result.raised /\ UnsupportedVersion(result.val, Tokens[pos])
    /\ ~result.raised =>
         Len(Tokens) >= pos /\ Upper(Tokens[pos]) \in SIPCompatibleVersions

C3_Witness ==
  /\ Failed
  /\ RequestShaped
  /\ Len(Tokens) = 3
  /\ Tokens[1] \notin SIPMethod
  /\ UnsupportedVersion(result.val, "SIP/3.0")

(* ------------------------------- C4 ----------------------------------- *)

\* C4 as stated: every request-shaped input whose first token is no
\* supported method fails with the method error.
C4_UnknownMethodAlwaysMethodError ==
  Done /\ RequestShaped /\ Tokens[1] \notin SIPMethod =>
    result.raised /\ UnsupportedMethod(result.val, Tokens[1])

\* C4 amended: a request-shaped input whose first token is no supported
\* method is never accepted, and it fails with the method error when the
\* start-line has at least three tokens and the third, upper-cased, is a
\* compatible version.
C4_UnknownMethodRejected ==
  Done /\ RequestShaped /\ Tokens[1] \notin SIPMethod =>
    /\ result.raised
    /\ Len(Tokens) >= 3 /\ Upper(Tokens[3]) \in SIPCompatibleVersions =>
         UnsupportedMethod(result.val, Tokens[1])

C4_Witness ==
  /\ Failed
  /\ RequestShaped
  /\ UnsupportedMethod(result.val, "FOO")

(* ------------------------------- C5 ----------------------------------- *)

\* C5: a response-shaped input with a compatible version whose numeric
\* status is no recognized code fails with an error of its own kind, which
\* is not the generic wrapped failure.
C5_UnrecognizedStatusOwnKind ==
  (/\ Done
   /\ ResponseShaped
   /\ Upper(Tokens[1]) \in SIPCompatibleVersions
   /\ Len(Tokens) >= 2
   /\ IsInt(Tokens[2])
   /\ IntOf(Tokens[2]) \notin ResponseCodes)
  => result.raised /\ Direct(result.val)

(* ------------------------------- C6 ----------------------------------- *)

\* C6: the authentication of a parsed message is the value of
\* WWW-Authenticate if the headers have it, else that of Authorization,
\* else that of Proxy-Authenticate, else the empty mapping.
C6_AuthenticationPriority ==
  Succeeded =>
    LET h == result.val.headers
        a == result.val.authentication
        www == "WWW-Authenticate" \in DOMAIN h
        cred == "Authorization" \in DOMAIN h
        proxy == "Proxy-Authenticate" \in DOMAIN h
    IN /\ www => a = h["WWW-Authenticate"]
       /\ ~www /\ cred => a = h["Authorization"]
       /\ ~www /\ ~cred /\ proxy => a = h["Proxy-Authenticate"]
       /\ ~www /\ ~cred /\ ~proxy => a = EmptyDict

C6_Witness ==
  /\ Succeeded
  /\ {"Authorization", "Proxy-Authenticate"} \subseteq DOMAIN result.val.headers
  /\ "WWW-Authenticate" \notin DOMAIN result.val.headers
  /\ result.val.authentication = [realm |-> "a"]

(* ------------------------------- C7 ----------------------------------- *)

\* C7: body is the payload of the first (content-type, payload) pair of
\* body_parts whose content-type is application/sdp, and {'content': None}
\* when there is none; body_parts is the sequence the extractor returned.
C7_BodyIsFirstSdp ==
  Succeeded =>
    LET bp == result.val.body_parts
        sdp == {i \in 1..Len(bp) : bp[i][1] = "application/sdp"}
    IN /\ sdp = {} => result.val.body = NoBody
       /\ \A i \in sdp : (\A j \in sdp : i <= j) => result.val.body = bp[i][2]
       /\ bp = parse_message_for_body_parts(data).val

C7_Witness ==
  /\ Succeeded
  /\ Len(result.val.body_parts) = 2
  /\ result.val.body_parts[1][1] = "application/sdp"
  /\ result.val.body_parts[2][1] = "application/sdp"
  /\ result.val.body_parts[1][2] /= result.val.body_parts[2][2]
  /\ result.val.body = result.val.body_parts[1][2]

(* ------------------------------- C8 ----------------------------------- *)

\* the start-line is a complete request line or status line
ValidStartLine ==
  /\ HasStartLine
  /\ \/ /\ VersionMatch(Tokens[1])
        /\ Upper(Tokens[1]) \in SIPCompatibleVersions
        /\ Len(Tokens) >= 2
        /\ IsInt(Tokens[2])
        /\ IntOf(Tokens[2]) \in ResponseCodes
     \/ /\ ~VersionMatch(Tokens[1])
        /\ Len(Tokens) >= 3
        /\ Upper(Tokens[3]) \in SIPCompatibleVersions
        /\ Tokens[1] \in SIPMethod
        /\ IsUri(Tokens[2])

NoSeparator == FindSeparator(data, 1) = 0

\* every line of the input after the first
LinesOfInput == Tail(Split(data, CRLF))

HeaderBlockLines == Tail(Split(SplitSeparator(data)[1], CRLF))

\* no parse that fails returns a message, and a failure of the tokenizer
\* or of the extractor fails the parse
AbortsWhole ==
  /\ Done /\ result.raised => result.val.class = "SIPParseError"
  /\ Succeeded => /\ CommonFields \subseteq DOMAIN result.val
                  /\ ValidStartLine
  /\ Done /\ Arrives /\ parse_raw_headers(HeaderBlockLines).raised => result.raised
  /\ Done /\ Arrives /\ parse_message_for_body_parts(data).raised => result.raised
  /\ Done /\ RequestShaped /\ Len(Tokens) < 3 =>
       result.raised /\ Wrapped(result.val, "IndexError")

\* C10 as stated: a failure at any step aborts the parse; a response-shaped
\* start-line with no status token and a request-shaped one with fewer than
\* three tokens fail as a malformed start-line (the wrapped IndexError).
C10_ShortStartLineMalformed ==
  /\ AbortsWhole
  /\ Done /\ ResponseShaped /\ Len(Tokens) < 2 =>
       result.raised /\ Wrapped(result.val, "IndexError")

\* C10 amended: the same, where the response-shaped start-line with no
\* status token has a compatible version.
C10_ShortStartLineMalformedIfCompatible ==
  /\ AbortsWhole
  /\ (/\ Done
      /\ ResponseShaped
      /\ Len(Tokens) < 2
      /\ Upper(Tokens[1]) \in SIPCompatibleVersions)
     => result.raised /\ Wrapped(result.val, "IndexError")

C10_Witness ==
  /\ Failed
  /\ ValidStartLine
  /\ ~parse_raw_headers(HeaderBlockLines).raised
  /\ Wrapped(result.val, "ValueError")
  /\ result.val.cause.msg = "payload part"

====
